---- MODULE Spec2Model ----
(***************************************************************************)
(* A model of the expression facade of ibis (ibis/expr/types/generic.py)  *)
(* and of the map operation catalog (ibis/expr/operations/maps.py).       *)
(*                                                                         *)
(* A view (ValueExpr) is an object on the heap: its identity is its index *)
(* in `heap`.  A view binds an operation node (kind, child views, value,  *)
(* target type), a DataType and an optional explicit name.  The module    *)
(* global _NULL is the variable NULL (0 stands for Python's None).        *)
(***************************************************************************)
EXTENDS Integers, Sequences, FiniteSets, TLC

VARIABLES heap, NULL, last, nullRets, pc, tmp, calls, base, twin

vars == <<heap, NULL, last, nullRets, pc, tmp, calls, base, twin>>

\* ------------------------------------------------------------------ bounds
\* A session builds at most MaxViews views on top of the views it starts with.
MaxViews == 2
\* Each thread of the concurrent specification calls null() at most MaxCalls times.
MaxCalls == 2

Threads == {"t1", "t2"}

\* ------------------------------------------------------------- data types
\* A DataType object: its kind, its geotype parameter ("n/a" for the kinds
\* that have none, "none" for a geospatial type built with geotype=None) and
\* the object it is: "module" for the objects the datatypes module itself
\* holds (dt.null, dt.int64, ...), "user" for an instance the caller built.
DT(k) == [kind |-> k, geotype |-> "n/a", obj |-> "module"]

dt_null == DT("null")
dt_int8 == DT("int8")
dt_int16 == DT("int16")
dt_int64 == DT("int64")
dt_float64 == DT("float64")
dt_string == DT("string")
dt_map == DT("map<string,int64>")
dt_boolean == DT("boolean")

\* dt.Null(): an instance of the null type that is not the object dt.null.
user_null == [kind |-> "null", geotype |-> "n/a", obj |-> "user"]

dt_point == [kind |-> "point", geotype |-> "none", obj |-> "module"]
dt_geometry == [kind |-> "geometry", geotype |-> "geometry", obj |-> "module"]
dt_geography == [kind |-> "geography", geotype |-> "geography", obj |-> "module"]

\* Stands for an absent DataType (type=None, or a node without a target).
NoType == [kind |-> "<none>", geotype |-> "n/a", obj |-> "module"]

\* DataType.equals: structural, the object's identity plays no part.
DtypeEquals(a, b) == a.kind = b.kind /\ a.geotype = b.geotype

\* `dtype is dt.null`: the identity of the object.
IsDtNull(t) == t = dt_null

IsGeoSpatial(t) == t.kind \in {"point", "geometry", "geography"}

IntRank(k) ==
    CASE k = "int8" -> 1
      [] k = "int16" -> 2
      [] k = "int64" -> 3
      [] OTHER -> 0

IsInteger(t) == IntRank(t.kind) > 0

Family(t) ==
    CASE IsInteger(t) \/ t.kind = "float64" -> "numeric"
      [] IsGeoSpatial(t) -> "geospatial"
      [] OTHER -> t.kind

\* Map.value_type
value_type(t) == IF t.kind = "map<string,int64>" THEN dt_int64 ELSE NoType

\* dt.same_kind: the two types belong to the same family.
same_kind(a, b) == Family(a) = Family(b)

\* The rank of a numeric type on the widening ladder.
Precedence(t) == IF t.kind = "float64" THEN 4 ELSE IntRank(t.kind)

\* dt.highest_precedence((a, b)) for two types of one family.
highest_precedence(a, b) == IF Precedence(a) >= Precedence(b) THEN a ELSE b

\* ----------------------------------------------------------- native values
NoneVal == [tag |-> "none", n |-> 0, s |-> ""]
IntVal(i) == [tag |-> "int", n |-> i, s |-> ""]
FloatVal(i) == [tag |-> "float", n |-> i, s |-> ""]
StrVal(x) == [tag |-> "str", n |-> 0, s |-> x]
\* A mapping of strings to integers.
MapVal == [tag |-> "map", n |-> 0, s |-> ""]
\* An arbitrary Python object: no type can be inferred for it.
ObjVal == [tag |-> "obj", n |-> 0, s |-> ""]
\* A view handed over as a value: heap object i.
ViewVal(i) == [tag |-> "view", n |-> i, s |-> ""]
\* Stands for "no value" in a node that carries none.
NoVal == [tag |-> "<none>", n |-> 0, s |-> ""]

Values == {NoneVal, IntVal(300), StrVal("foobar"), ObjVal}

\* dt.infer(value): the narrowest type holding the value; NoType stands for
\* the InputTypeError of a value with no inferable type.
Infer(v) ==
    CASE v.tag = "none" -> dt_null
      [] v.tag = "int" /\ v.n >= -128 /\ v.n <= 127 -> dt_int8
      [] v.tag = "int" /\ v.n >= -32768 /\ v.n <= 32767 -> dt_int16
      [] v.tag = "int" -> dt_int64
      [] v.tag = "float" -> dt_float64
      [] v.tag = "str" -> dt_string
      [] v.tag = "map" -> dt_map
      [] OTHER -> NoType

Fits(n, k) ==
    CASE k = "int8" -> n >= -128 /\ n <= 127
      [] k = "int16" -> n >= -32768 /\ n <= 32767
      [] OTHER -> TRUE

\* castable(from, to, value): range-aware when the value is an integer.
Castable(from, to, v) ==
    CASE DtypeEquals(from, to) -> TRUE
      [] from.kind = "null" -> TRUE
      [] IsInteger(from) /\ IsInteger(to) ->
            IntRank(to.kind) >= IntRank(from.kind) \/ (v.tag = "int" /\ Fits(v.n, to.kind))
      [] IsInteger(from) /\ to.kind = "float64" -> TRUE
      [] OTHER -> FALSE

\* dt._normalize(dtype, value): the value in the representation of dtype.
Normalize(t, v) ==
    IF t.kind = "float64" /\ v.tag = "int" THEN FloatVal(v.n) ELSE v

TypeName(t) == t.kind

\* ------------------------------------------------------------------- nodes
Node(k, a, v, t, nm) == [kind |-> k, args |-> a, value |-> v, to |-> t, col |-> nm]

\* ops.Literal covers ops.NullLiteral, its subclass.
IsLiteralNode(n) == n.kind \in {"Literal", "NullLiteral"}

\* Node.has_resolved_name / Node.resolve_name: a table column resolves to
\* its column name, the other node kinds of this model resolve to no name.
HasResolvedName(n) == n.kind = "TableColumn"

NoName == "<none>"

ResolveName(n) == IF n.kind = "TableColumn" THEN n.col ELSE NoName

\* ------------------------------------------------------------------- views
View(c, n, t, nm, sh) == [cls |-> c, node |-> n, dtype |-> t, name |-> nm, shape |-> sh]

\* The dispatch table: the view class of a (type family, shape) pair.
ViewClass(t, sh) == <<Family(t), sh>>

\* Node.to_expr(): the view class is picked by (type family, shape); the
\* view carries the node's output DataType and no explicit name.
ToExpr(n, t, sh) == View(ViewClass(t, sh), n, t, NoName, sh)

Column(nm, t) == ToExpr(Node("TableColumn", <<>>, NoVal, NoType, nm), t, "Column")

BaseViews == <<Column("a", dt_int64), Column("g", dt_point)>>

Ids == 1..Len(heap)

CanAlloc == Len(heap) < base + MaxViews

\* ---------------------------------------------------------- call records
Call(o) ==
    [op |-> o, self |-> 0, other |-> 0, value |-> NoVal, type |-> NoType,
     nm |-> NoName, out |-> 0, err |-> "", flag |-> FALSE, txt |-> NoName,
     before |-> 0, resolved |-> NoType, errval |-> NoVal, errtype |-> NoType,
     args |-> <<>>, allowed |-> {}]

\* The calls of a first run of a session and what each answered, kept for a
\* second run of the same calls in a new process: `seen` is the last call
\* taken note of, `map` leads from the views of the first run to those of
\* the second, `k` is the call the second run is at, `warm` tells whether the
\* new process calls null() before it starts.
OneRun ==
    [phase |-> 1, script |-> <<>>, seen |-> Call("init"), map |-> <<>>, k |-> 1,
     warm |-> "no"]

\* ------------------------------------------------------------------ null()
NullView == ToExpr(Node("NullLiteral", <<>>, NoneVal, NoType, NoName), dt_null, "Scalar")

\* null() without the test of the global: a view is built on every call.
null_fresh_always == TRUE

\* `_NULL is None`: null() builds the view.
null_fresh == NULL = 0

\* The heap after null() has run: a NullLiteral view is appended when the
\* global is unset.
null_heap == IF null_fresh THEN Append(heap, NullView) ELSE heap

\* The global after null() has run, which is also what null() returns.
null_result == IF null_fresh THEN Len(heap) + 1 ELSE NULL

NullCall ==
    /\ ~null_fresh \/ CanAlloc
    /\ heap' = null_heap
    /\ NULL' = null_result
    /\ nullRets' = nullRets \cup {null_result}
    /\ last' = [Call("null") EXCEPT !.out = null_result, !.before = Len(heap)]
    /\ UNCHANGED <<pc, tmp, calls, base, twin>>

\* ------------------------------------------------------- names of a view
\* ValueExpr.has_name
has_name(v) == IF v.name # NoName THEN TRUE ELSE HasResolvedName(v.node)

\* get_name() that asks the node first.
get_name_node_first(v) == IF HasResolvedName(v.node) THEN ResolveName(v.node) ELSE v.name

\* ValueExpr.get_name
get_name(v) == IF v.name # NoName THEN v.name ELSE ResolveName(v.node)

\* ValueExpr._factory: a view of the receiver's class and DataType.
factory(v, arg, nm) == View(v.cls, arg, v.dtype, nm, v.shape)

\* name() that keeps a name the receiver already has.
name_first_wins(v, nm) == factory(v, v.node, IF v.name # NoName THEN v.name ELSE nm)

\* ValueExpr.name: a new view over the receiver's node.
name(v, nm) == factory(v, v.node, nm)

Names == {"a", "x"}

\* v.name(nm), the name drawn from NameSet.
NameIn(NameSet) ==
    \E i \in Ids, nm \in NameSet :
        /\ CanAlloc
        /\ heap' = Append(heap, name(heap[i], nm))
        /\ last' = [Call("name") EXCEPT !.self = i, !.nm = nm, !.out = Len(heap) + 1,
                                        !.before = Len(heap)]
        /\ UNCHANGED <<NULL, nullRets, pc, tmp, calls, base, twin>>

NameCall == NameIn(Names)

\* ------------------------------------------------------------------ cast()
\* `self.type().geotype or 'geometry'`
from_geotype(v) == IF v.dtype.geotype = "none" THEN "geometry" ELSE v.dtype.geotype

\* isinstance(op.to, (dt.Geography, dt.Geometry))
IsGeoTarget(t) == t.kind \in {"geometry", "geography"}

\* cast() without the geometry/geography short cut.
cast_noop_equal_only(v, to) == DtypeEquals(to, v.dtype)

\* AnyValue.cast returns the receiver: the target equals the receiver's type,
\* or names the receiver's geotype.
cast_noop(v, to) ==
    IF DtypeEquals(to, v.dtype)
    THEN TRUE
    ELSE IsGeoTarget(to) /\ from_geotype(v) = to.geotype

\* ops.Cast(self, to).to_expr(): the output DataType is the target, the shape
\* is the argument's.
CastExpr(i, v, to) == ToExpr(Node("Cast", <<i>>, NoVal, to, NoName), to, v.shape)

CastName(v, to) == "cast(" \o get_name(v) \o ", " \o TypeName(to) \o ")"

\* The view AnyValue.cast builds when it does not return the receiver
\* (the receiver is heap object i).
cast_view(i, v, to) ==
    IF ~has_name(v)
    THEN CastExpr(i, v, to)
    ELSE name(CastExpr(i, v, to), CastName(v, to))

CastTargets == {dt_int64, dt_string, dt_point, dt_geometry, dt_geography}

\* The geotype of a DataType that is not geospatial is not read here: the
\* cast of such a view to a geometry or geography type is left out.
CastDefined(v, to) ==
    DtypeEquals(to, v.dtype) \/ ~IsGeoTarget(to) \/ IsGeoSpatial(v.dtype)

\* v.cast(to), the target drawn from Targets.
CastIn(Targets) ==
    \E i \in Ids, to \in Targets :
        /\ CastDefined(heap[i], to)
        /\ IF cast_noop(heap[i], to)
           THEN /\ heap' = heap
                /\ last' = [Call("cast") EXCEPT !.self = i, !.type = to, !.out = i,
                                               !.before = Len(heap)]
           ELSE /\ CanAlloc
                /\ heap' = Append(heap, cast_view(i, heap[i], to))
                /\ last' = [Call("cast") EXCEPT !.self = i, !.type = to,
                                               !.out = Len(heap) + 1, !.before = Len(heap)]
        /\ UNCHANGED <<NULL, nullRets, pc, tmp, calls, base, twin>>

CastCall == CastIn(CastTargets)

\* --------------------------------------------------------------- literal()
\* The test for a literal view that misses the NullLiteral subclass.
is_plain_literal_view(v) == v.node.kind = "Literal"

\* hasattr(value, 'op') and isinstance(value.op(), ops.Literal)
is_literal_view(v) == IsLiteralNode(v.node)

\* The arguments literal() may be given as `type`: None, a type name the
\* datatypes module resolves to its own object, or a DataType instance.
TypeArgs == {NoType, dt_null, user_null, dt_int64}

\* literal() taking the explicit type without the castability check.
literal_dtype_unchecked(value, type) ==
    IF type # NoType
    THEN [err |-> "", dtype |-> type, errval |-> NoVal, errtype |-> NoType]
    ELSE IF Infer(value) # NoType
    THEN [err |-> "", dtype |-> Infer(value), errval |-> NoVal, errtype |-> NoType]
    ELSE [err |-> "infer", dtype |-> NoType, errval |-> value, errtype |-> NoType]

\* The DataType literal(value, type) resolves for a value that is no
\* literal view, or the error it raises: "coerce" is the TypeError naming
\* the value and the requested type, "infer" the TypeError that names the
\* value and asks for an explicit type.
literal_dtype(value, type) ==
    LET inferred_dtype == Infer(value)
        has_inferred == inferred_dtype # NoType
        has_explicit == type # NoType
    IN  IF has_explicit /\ has_inferred
        THEN IF Castable(inferred_dtype, type, value)
             THEN [err |-> "", dtype |-> type, errval |-> NoVal, errtype |-> NoType]
             ELSE [err |-> "coerce", dtype |-> NoType, errval |-> value, errtype |-> type]
        ELSE IF has_explicit
        THEN [err |-> "", dtype |-> type, errval |-> NoVal, errtype |-> NoType]
        ELSE IF has_inferred
        THEN [err |-> "", dtype |-> inferred_dtype, errval |-> NoVal, errtype |-> NoType]
        ELSE [err |-> "infer", dtype |-> NoType, errval |-> value, errtype |-> NoType]

\* literal() that answers with the singleton only once it is initialised.
literal_is_null_once_set(dtype) == IsDtNull(dtype) /\ ~null_fresh

\* Whether literal() answers with null().cast(dtype) for the resolved type.
literal_is_null(dtype) == IsDtNull(dtype)

\* ops.Literal(value, dtype=dtype).to_expr() on the normalized value.
literal_view(value, dtype) ==
    ToExpr(Node("Literal", <<>>, Normalize(dtype, value), NoType, NoName), dtype, "Scalar")

\* Whether literal() returns its argument: a view bound to a literal node.
literal_returns_arg(value) ==
    IF value.tag = "view" THEN is_literal_view(heap[value.n]) ELSE FALSE

\* literal(value, type), the value drawn from LitValues.
LiteralIn(LitValues, LitTypes) ==
    \E value \in LitValues \cup {ViewVal(i) : i \in Ids}, type \in LitTypes :
        LET r == literal_dtype(value, type)
            call == [Call("literal") EXCEPT !.value = value, !.type = type,
                                            !.before = Len(heap)]
        IN  IF literal_returns_arg(value)
            THEN /\ last' = [call EXCEPT !.out = value.n]
                 /\ UNCHANGED <<heap, NULL, nullRets, pc, tmp, calls, base, twin>>
            ELSE IF r.err # ""
            THEN /\ last' = [call EXCEPT !.err = r.err, !.errval = r.errval,
                                         !.errtype = r.errtype]
                 /\ UNCHANGED <<heap, NULL, nullRets, pc, tmp, calls, base, twin>>
            ELSE IF literal_is_null(r.dtype)
            THEN \* null().cast(dtype): null() runs, then cast on the view it returns.
                 /\ ~null_fresh \/ CanAlloc
                 /\ NULL' = null_result
                 /\ nullRets' = nullRets \cup {null_result}
                 /\ IF cast_noop(null_heap[null_result], r.dtype)
                    THEN /\ heap' = null_heap
                         /\ last' = [call EXCEPT !.out = null_result, !.resolved = r.dtype]
                    ELSE /\ Len(null_heap) < base + MaxViews
                         /\ heap' = Append(null_heap,
                               cast_view(null_result, null_heap[null_result], r.dtype))
                         /\ last' = [call EXCEPT !.out = Len(null_heap) + 1,
                                                 !.resolved = r.dtype]
                 /\ UNCHANGED <<pc, tmp, calls, base, twin>>
            ELSE /\ CanAlloc
                 /\ heap' = Append(heap, literal_view(value, r.dtype))
                 /\ last' = [call EXCEPT !.out = Len(heap) + 1, !.resolved = r.dtype]
                 /\ UNCHANGED <<NULL, nullRets, pc, tmp, calls, base, twin>>

LiteralCall == LiteralIn(Values, TypeArgs)

\* ---------------------------------------------------------------- equals()
\* Expr._safe_name: the name of the view if it has one, else None.
safe_name(v) == IF has_name(v) THEN get_name(v) ELSE NoName

RECURSIVE Expr_equals(_, _)

\* Two field values of a node: views are compared by equals, the rest by value.
ValueEquals(x, y) ==
    IF x.tag = "view" /\ y.tag = "view"
    THEN Expr_equals(heap[x.n], heap[y.n])
    ELSE x = y

\* Node.equals: the same node kind and pairwise equal fields.
NodeEquals(m, n) ==
    /\ m.kind = n.kind
    /\ m.col = n.col
    /\ DtypeEquals(m.to, n.to)
    /\ ValueEquals(m.value, n.value)
    /\ Len(m.args) = Len(n.args)
    /\ \A k \in 1..Len(m.args) : Expr_equals(heap[m.args[k]], heap[n.args[k]])

\* equals() comparing the explicit names only, as __hash__ does.
ValueExpr_equals_explicit(a, b) ==
    /\ a.name = b.name
    /\ DtypeEquals(a.dtype, b.dtype)
    /\ NodeEquals(a.node, b.node)

\* ValueExpr.equals on two views.
ValueExpr_equals(a, b) ==
    /\ safe_name(a) = safe_name(b)
    /\ DtypeEquals(a.dtype, b.dtype)
    /\ NodeEquals(a.node, b.node)

Expr_equals(a, b) == ValueExpr_equals(a, b)

\* a.equals(other): other is a view, or a native value (no expression).
EqualsCall ==
    \E i \in Ids, other \in {ViewVal(j) : j \in Ids} \cup {IntVal(300)} :
        /\ IF other.tag # "view"
           THEN last' = [Call("equals") EXCEPT !.self = i, !.value = other,
                                              !.err = "TypeError", !.before = Len(heap)]
           ELSE last' = [Call("equals") EXCEPT !.self = i, !.value = other, !.other = other.n,
                                              !.flag = ValueExpr_equals(heap[i], heap[other.n]),
                                              !.before = Len(heap)]
        /\ UNCHANGED <<heap, NULL, nullRets, pc, tmp, calls, base, twin>>

\* v.has_name() and v.get_name().
GetNameCall ==
    \E i \in Ids :
        /\ last' = [Call("get_name") EXCEPT !.self = i, !.flag = has_name(heap[i]),
                                            !.txt = get_name(heap[i]), !.before = Len(heap)]
        /\ UNCHANGED <<heap, NULL, nullRets, pc, tmp, calls, base, twin>>

\* ------------------------------------------------ MapValueOrDefaultForKey
\* rlz.shape_like(args, dtype): Column if any argument is a column.
shape_like(args) ==
    IF \E k \in 1..Len(args) : heap[args[k]].shape = "Column" THEN "Column" ELSE "Scalar"

\* output_type that answers the map's value type whatever the default is.
MapValueOrDefault_value_type(arg, key, default) ==
    LET vtype == value_type(heap[arg].dtype)
        default_type == heap[default].dtype
    IN  IF ~same_kind(default_type, vtype)
        THEN [err |-> "IbisTypeError", errval |-> ViewVal(default), errtype |-> default_type,
              errtype2 |-> vtype, dtype |-> NoType, shape |-> "Scalar"]
        ELSE [err |-> "", errval |-> NoVal, errtype |-> NoType, errtype2 |-> NoType,
              dtype |-> vtype, shape |-> shape_like(<<arg, key, default>>)]

\* MapValueOrDefaultForKey.output_type: the IbisTypeError naming the
\* default, its type and the map's value type, or the output contract.
MapValueOrDefault_output_type(arg, key, default) ==
    LET map_type == heap[arg].dtype
        vtype == value_type(map_type)
        default_type == heap[default].dtype
    IN  IF ~same_kind(default_type, vtype)
        THEN [err |-> "IbisTypeError", errval |-> ViewVal(default), errtype |-> default_type,
              errtype2 |-> vtype, dtype |-> NoType, shape |-> "Scalar"]
        ELSE [err |-> "", errval |-> NoVal, errtype |-> NoType, errtype2 |-> NoType,
              dtype |-> highest_precedence(default_type, vtype),
              shape |-> shape_like(<<arg, key, default>>)]

\* rlz.mapping
IsMapping(v) == v.dtype.kind = "map<string,int64>"

\* rlz.one_of([rlz.string, rlz.integer])
IsKey(v) == v.dtype.kind = "string" \/ IsInteger(v.dtype)

\* ops.MapValueOrDefaultForKey(arg, key, default).to_expr()
MapValueOrDefaultCall ==
    \E arg \in Ids, key \in Ids, default \in Ids :
        LET r == MapValueOrDefault_output_type(arg, key, default)
            call == [Call("map_get") EXCEPT !.self = arg, !.other = key, !.out = 0,
                                            !.value = ViewVal(default), !.before = Len(heap)]
        IN  /\ IsMapping(heap[arg])
            /\ IsKey(heap[key])
            /\ IF r.err # ""
               THEN /\ heap' = heap
                    /\ last' = [call EXCEPT !.err = r.err, !.errval = r.errval,
                                            !.errtype = r.errtype, !.resolved = r.errtype2]
               ELSE /\ CanAlloc
                    /\ heap' = Append(heap,
                          ToExpr(Node("MapValueOrDefaultForKey", <<arg, key, default>>,
                                      NoVal, NoType, NoName), r.dtype, r.shape))
                    /\ last' = [call EXCEPT !.out = Len(heap) + 1]
            /\ UNCHANGED <<NULL, nullRets, pc, tmp, calls, base, twin>>

\* The views a session on maps starts with: a map column, a map scalar, a
\* string key and an integer column.
MapBaseViews ==
    <<Column("m", dt_map),
      ToExpr(Node("Literal", <<>>, MapVal, NoType, NoName), dt_map, "Scalar"),
      ToExpr(Node("Literal", <<>>, StrVal("foobar"), NoType, NoName), dt_string, "Scalar"),
      Column("a", dt_int64)>>

\* ------------------------------------------------- null() called by threads
\* A thread enters null().
T_Call(t) ==
    /\ pc[t] = "idle"
    /\ calls[t] < MaxCalls
    /\ pc' = [pc EXCEPT ![t] = "check"]
    /\ calls' = [calls EXCEPT ![t] = @ + 1]
    /\ UNCHANGED <<heap, NULL, last, nullRets, tmp, base, twin>>

\* `if _NULL is None:` reads the global.
T_Check(t) ==
    /\ pc[t] = "check"
    /\ pc' = [pc EXCEPT ![t] = IF NULL = 0 THEN "build" ELSE "return"]
    /\ UNCHANGED <<heap, NULL, last, nullRets, tmp, calls, base, twin>>

\* `ops.NullLiteral().to_expr()` builds a view.
T_Build(t) ==
    /\ pc[t] = "build"
    /\ heap' = Append(heap, NullView)
    /\ tmp' = [tmp EXCEPT ![t] = Len(heap) + 1]
    /\ pc' = [pc EXCEPT ![t] = "store"]
    /\ UNCHANGED <<NULL, last, nullRets, calls, base, twin>>

\* `_NULL = ...` stores it in the global.
T_Store(t) ==
    /\ pc[t] = "store"
    /\ NULL' = tmp[t]
    /\ pc' = [pc EXCEPT ![t] = "return"]
    /\ UNCHANGED <<heap, last, nullRets, tmp, calls, base, twin>>

\* `return _NULL` reads the global again.
T_Return(t) ==
    /\ pc[t] = "return"
    /\ nullRets' = nullRets \cup {NULL}
    /\ last' = [Call("null") EXCEPT !.out = NULL, !.before = Len(heap)]
    /\ pc' = [pc EXCEPT ![t] = "idle"]
    /\ UNCHANGED <<heap, NULL, tmp, calls, base, twin>>

Init ==
    /\ heap = BaseViews
    /\ NULL = 0
    /\ last = Call("init")
    /\ nullRets = {}
    /\ pc = [t \in Threads |-> "idle"]
    /\ tmp = [t \in Threads |-> 0]
    /\ calls = [t \in Threads |-> 0]
    /\ base = Len(BaseViews)
    /\ twin = OneRun

\* The builders around null() and literal(): the default specification.
Next ==
    \/ NullCall
    \/ LiteralCall
    \/ NameIn({"x"})
    \/ CastIn({dt_string})

Spec == Init /\ [][Next]_vars

\* The builders around cast() and name().
NextCast ==
    \/ NullCall
    \/ LiteralIn({IntVal(300)}, {NoType})
    \/ NameCall
    \/ CastCall

SpecCast == Init /\ [][NextCast]_vars

\* The builders together with the observers of a view: equals, has_name
\* and get_name.
NextViews ==
    \/ NameIn({"a"})
    \/ CastIn({dt_string, dt_geometry})
    \/ LiteralIn({IntVal(300)}, {NoType, dt_int64})
    \/ EqualsCall
    \/ GetNameCall

SpecViews == Init /\ [][NextViews]_vars

InitMap ==
    /\ heap = MapBaseViews
    /\ NULL = 0
    /\ last = Call("init")
    /\ nullRets = {}
    /\ pc = [t \in Threads |-> "idle"]
    /\ tmp = [t \in Threads |-> 0]
    /\ calls = [t \in Threads |-> 0]
    /\ base = Len(MapBaseViews)
    /\ twin = OneRun

\* Literals and map lookups with a default.
NextMap ==
    \/ LiteralIn({IntVal(300)}, {NoType, dt_float64})
    \/ MapValueOrDefaultCall

SpecMap == InitMap /\ [][NextMap]_vars

\* Threads that call null(), interleaved between the reads and the write of
\* the global.
NextThreads ==
    \E t \in Threads :
        \/ T_Call(t)
        \/ T_Check(t)
        \/ T_Build(t)
        \/ T_Store(t)
        \/ T_Return(t)

SpecThreads == Init /\ [][NextThreads]_vars

\* ------------------------------------------------------------ properties
\* Objects are never changed once they are on the heap.
HeapKept == \A i \in Ids : i <= Len(heap') /\ heap'[i] = heap[i]

\* C1: every sequential call of null(), whatever builder calls lie between,
\* returns the same instance: the global is set by the first call, it holds
\* the one NullLiteral view ever built by null(), and once set it is never
\* replaced or reset.
C1_NullIsSingleton ==
    /\ [](/\ Cardinality(nullRets) <= 1
          /\ nullRets # {} => nullRets = {NULL}
          /\ NULL # 0 => NULL \in Ids /\ heap[NULL] = NullView
          /\ Cardinality({i \in Ids : heap[i] = NullView}) <= 1
          /\ last.op = "null" => last.out = NULL /\ NULL # 0)
    /\ [][NULL # 0 => NULL' = NULL]_vars

\* null() is called again after other views were built since its first call.
C1_Witness ==
    /\ last.op = "null"
    /\ last.before = Len(heap)
    /\ last.out = NULL
    /\ NULL < Len(heap)

\* C2: when threads call null() while the global is unset, the NullLiteral
\* view is built exactly once and every caller receives the same instance.
C2_RaceFreeInit ==
    /\ Cardinality({i \in Ids : heap[i] = NullView}) <= 1
    /\ Cardinality(nullRets) <= 1

\* C3: for a value that is no literal view, literal(value, type) resolves
\* the DataType by the table (inferred?, explicit?): both and castable for
\* this value -> the explicit type; both and not castable -> the TypeError
\* naming the value and the requested type; explicit only -> the explicit
\* type; inferred only -> the inferred type; neither -> the TypeError asking
\* for an explicit type.  An error builds nothing.
C3_LiteralTypeTable ==
    (last.op = "literal" /\ ~(last.value.tag = "view" /\ last.out = last.value.n)) =>
        LET inferred == Infer(last.value)
            explicit == last.type
            ok(t) == /\ last.err = ""
                     /\ last.resolved = t
                     /\ last.out \in Ids
                     /\ DtypeEquals(heap[last.out].dtype, t)
            coerce == /\ last.err = "coerce"
                      /\ last.errval = last.value
                      /\ last.errtype = last.type
                      /\ last.out = 0
                      /\ Len(heap) = last.before
            cannot == /\ last.err = "infer"
                      /\ last.errval = last.value
                      /\ last.out = 0
                      /\ Len(heap) = last.before
        IN  CASE inferred # NoType /\ explicit # NoType ->
                    IF Castable(inferred, explicit, last.value) THEN ok(explicit) ELSE coerce
              [] inferred = NoType /\ explicit # NoType -> ok(explicit)
              [] inferred # NoType /\ explicit = NoType -> ok(inferred)
              [] OTHER -> cannot

\* literal("foobar", type="int64"): the value does not fit the explicit type.
C3_Witness ==
    /\ last.op = "literal"
    /\ last.value = StrVal("foobar")
    /\ last.type = dt_int64
    /\ last.err = "coerce"

\* C4: literal(value, type) on a view bound to a literal node returns that
\* very view, for every `type`, and builds nothing.
C4_LiteralIdempotent ==
    (last.op = "literal" /\ last.value.tag = "view") =>
        (IsLiteralNode(heap[last.value.n].node) =>
            /\ last.out = last.value.n
            /\ last.err = ""
            /\ Len(heap) = last.before)

\* literal(v, type) on a literal view v whose type differs from `type`.
C4_Witness ==
    /\ last.op = "literal"
    /\ last.value.tag = "view"
    /\ last.out = last.value.n
    /\ last.type # NoType
    /\ ~DtypeEquals(last.type, heap[last.out].dtype)

\* C5: whenever the DataType literal(value, type) resolves is the null type,
\* inferred or explicit, literal returns the null singleton and builds no
\* Literal node; for any other resolved type it builds a Literal node that
\* carries the normalized value.
C5_NullTypeGivesSingleton ==
    (last.op = "literal" /\ last.err = "" /\ last.resolved # NoType) =>
        IF last.resolved.kind = "null"
        THEN /\ last.out = NULL
             /\ heap[last.out] = NullView
             /\ \A i \in (last.before + 1)..Len(heap) : heap[i].node.kind # "Literal"
        ELSE /\ last.out = Len(heap)
             /\ Len(heap) = last.before + 1
             /\ heap[last.out].node.kind = "Literal"
             /\ heap[last.out].node.value = Normalize(last.resolved, last.value)

C7_NameIsNewView ==
    /\ [](last.op = "name" =>
            /\ last.out = Len(heap)
            /\ last.out # last.self
            /\ Len(heap) = last.before + 1
            /\ heap[last.out].cls = heap[last.self].cls
            /\ heap[last.out].node = heap[last.self].node
            /\ heap[last.out].dtype = heap[last.self].dtype
            /\ heap[last.out].shape = heap[last.self].shape
            /\ heap[last.out].name = last.nm)
    /\ [][HeapKept]_vars

\* A named view is named again: the result shows the last name only.
C7_Witness ==
    /\ last.op = "name"
    /\ heap[last.self].name # NoName
    /\ heap[last.self].name # last.nm
    /\ heap[last.out].name = last.nm

\* C8: with an explicit name has_name() is true and get_name() is that name,
\* whatever the node resolves; without one has_name() is the node's
\* has_resolved_name() and get_name() the node's resolve_name().
C8_NameResolution ==
    last.op = "get_name" =>
        LET v == heap[last.self]
        IN  IF v.name # NoName
            THEN last.flag /\ last.txt = v.name
            ELSE /\ last.flag = HasResolvedName(v.node)
                 /\ last.txt = ResolveName(v.node)

\* A table column named explicitly: the explicit name hides the column's.
C8_Witness ==
    /\ last.op = "get_name"
    /\ heap[last.self].name # NoName
    /\ HasResolvedName(heap[last.self].node)
    /\ last.txt # ResolveName(heap[last.self].node)

\* The effective name of a view: the explicit one, or else the node's.
EffectiveName(v) == IF v.name # NoName THEN v.name ELSE ResolveName(v.node)

\* C9: a.equals(b) holds exactly when the effective names match, the
\* DataTypes are equal and the nodes are structurally equal; equals is
\* reflexive and symmetric over all views; a non-expression raises TypeError.
C9_EqualsIsStructural ==
    /\ last.op = "equals" =>
          IF last.other = 0
          THEN last.err = "TypeError"
          ELSE LET a == heap[last.self]
                   b == heap[last.other]
               IN  /\ last.err = ""
                   /\ last.flag = (/\ EffectiveName(a) = EffectiveName(b)
                                   /\ DtypeEquals(a.dtype, b.dtype)
                                   /\ NodeEquals(a.node, b.node))
    /\ \A i, j \in Ids :
          /\ ValueExpr_equals(heap[i], heap[i])
          /\ ValueExpr_equals(heap[i], heap[j]) = ValueExpr_equals(heap[j], heap[i])

\* Two distinct views, built one after the other over fresh nodes, are equal.
C9_Witness ==
    /\ last.op = "equals"
    /\ last.other # 0
    /\ last.self # last.other
    /\ last.flag
    /\ heap[last.self].node.kind \in {"Literal", "Cast"}
    /\ heap[last.self].name = NoName

\* C10: a MapValueOrDefaultForKey node whose default is not of the family of
\* the map's value type raises the type error naming the default, its type
\* and the value type, and builds nothing; with a default of that family the
\* output DataType is highest_precedence(default type, value type) and the
\* shape is Column exactly when one of the three arguments is a column.
C10_MapDefaultContract ==
    last.op = "map_get" =>
        LET arg == heap[last.self]
            key == heap[last.other]
            default == heap[last.value.n]
            vt == value_type(arg.dtype)
            numeric == {"int8", "int16", "int64", "float64"}
            same == \/ default.dtype.kind \in numeric /\ vt.kind \in numeric
                    \/ default.dtype.kind = vt.kind
            widest == IF default.dtype.kind = "float64" THEN default.dtype ELSE vt
        IN  IF ~same
            THEN /\ last.err = "IbisTypeError"
                 /\ last.errval = last.value
                 /\ last.errtype = default.dtype
                 /\ last.resolved = vt
                 /\ last.out = 0
                 /\ Len(heap) = last.before
            ELSE /\ last.err = ""
                 /\ last.out = Len(heap)
                 /\ heap[last.out].node.kind = "MapValueOrDefaultForKey"
                 /\ heap[last.out].dtype = widest
                 /\ heap[last.out].shape =
                        IF "Column" \in {arg.shape, key.shape, default.shape}
                        THEN "Column" ELSE "Scalar"

\* A float default on a map of integers, all three arguments scalars: the
\* output is the default's type, wider than the value type, and a scalar.
C10_Witness ==
    /\ last.op = "map_get"
    /\ last.err = ""
    /\ heap[last.out].dtype = dt_float64
    /\ heap[last.out].shape = "Scalar"

\* ------------------------------------------------- string and map nodes
\* The longest list handed to a list field.
MaxList == 2

\* rlz.string and rlz.integer on a view.
IsString(v) == v.dtype.kind = "string"

IsIntegerView(v) == IsInteger(v.dtype)

\* rlz.optional(rule): the field is absent (0) or one of the views that pass
\* the rule.
IsOptional(i, Passing) == i \in Passing \cup {0}

\* The fields of a node that hold an expression: absent optionals left out.
Present(fields) == SelectSeq(fields, LAMBDA i : i # 0)

\* The lists of at most n views of S.
ListsOf(S, n) == UNION {[1..k -> S] : k \in 0..n}

\* rlz.typeof(field): the DataType of the field and, by shape_like, its shape.
typeof(field) == [dtype |-> heap[field].dtype, shape |-> shape_like(<<field>>)]

\* Substring: output_type = rlz.shape_like('arg', dt.string)
Substring_output_type(arg, start, length) ==
    [dtype |-> dt_string, shape |-> shape_like(<<arg>>)]

\* StartsWith: output_type = rlz.shape_like("arg", dt.boolean)
StartsWith_output_type(arg, start) ==
    [dtype |-> dt_boolean, shape |-> shape_like(<<arg>>)]

\* LPad: output_type = rlz.shape_like('arg', dt.string)
LPad_output_type(arg, length, pad) ==
    [dtype |-> dt_string, shape |-> shape_like(<<arg>>)]

\* FindInSet: output_type = rlz.shape_like('needle', dt.int64)
FindInSet_output_type(needle, values) ==
    [dtype |-> dt_int64, shape |-> shape_like(<<needle>>)]

\* StringJoin.output_type: rlz.shape_like(tuple(self.flat_args()), dt.string)
StringJoin_output_type(sep, arg) ==
    [dtype |-> dt_string, shape |-> shape_like(<<sep>> \o arg)]

\* MapConcat: output_type = rlz.typeof('left')
MapConcat_output_type(left, right) == typeof(left)

\* ParseURL: output_type = rlz.shape_like('arg', dt.string)
ParseURL_output_type(arg, extract, key) ==
    [dtype |-> dt_string, shape |-> shape_like(<<arg>>)]

\* A node whose fields passed their rules is built and wrapped in a view.
BuildOp(kind, fields, conf, contract) ==
    /\ CanAlloc
    /\ heap' = Append(heap, ToExpr(Node(kind, fields, conf, NoType, NoName),
                                   contract.dtype, contract.shape))
    /\ last' = [Call(kind) EXCEPT !.args = fields, !.value = conf,
                                  !.out = Len(heap) + 1, !.before = Len(heap)]
    /\ UNCHANGED <<NULL, nullRets, pc, tmp, calls, base, twin>>

\* A field broke its rule: the error is raised and no node is built.
RejectOp(kind, fields, conf, error, allowed) ==
    /\ heap' = heap
    /\ last' = [Call(kind) EXCEPT !.args = fields, !.value = conf, !.err = error,
                                  !.errval = conf, !.allowed = allowed,
                                  !.before = Len(heap)]
    /\ UNCHANGED <<NULL, nullRets, pc, tmp, calls, base, twin>>

\* ops.Substring(arg, start, length)
SubstringCall ==
    \E arg \in Ids, start \in Ids, length \in Ids \cup {0} :
        /\ IsString(heap[arg])
        /\ IsIntegerView(heap[start])
        /\ IsOptional(length, {j \in Ids : IsIntegerView(heap[j])})
        /\ BuildOp("Substring", Present(<<arg, start, length>>), NoVal,
                   Substring_output_type(arg, start, length))

\* ops.StartsWith(arg, start)
StartsWithCall ==
    \E arg \in Ids, start \in Ids :
        /\ IsString(heap[arg])
        /\ IsString(heap[start])
        /\ BuildOp("StartsWith", <<arg, start>>, NoVal, StartsWith_output_type(arg, start))

\* ops.LPad(arg, length, pad)
LPadCall ==
    \E arg \in Ids, length \in Ids, pad \in Ids \cup {0} :
        /\ IsString(heap[arg])
        /\ IsIntegerView(heap[length])
        /\ IsOptional(pad, {j \in Ids : IsString(heap[j])})
        /\ BuildOp("LPad", Present(<<arg, length, pad>>), NoVal,
                   LPad_output_type(arg, length, pad))

\* ops.MapConcat(left, right)
MapConcatCall ==
    \E left \in Ids, right \in Ids :
        /\ IsMapping(heap[left])
        /\ IsMapping(heap[right])
        /\ BuildOp("MapConcat", <<left, right>>, NoVal, MapConcat_output_type(left, right))

\* min_length=1 of FindInSet.values and of StringJoin.arg.
FindInSet_min_length == 1

StringJoin_min_length == 1

\* rlz.value_list_of(rule, min_length) on a list of views that each pass
\* the rule: the list is refused when it is shorter than min_length.
value_list_of(list, min_length) == Len(list) >= min_length

\* ops.FindInSet(needle, values) on views of Views.
FindInSetIn(Views) ==
    \E needle \in Views, values \in ListsOf({i \in Views : IsString(heap[i])}, MaxList) :
        /\ IsString(heap[needle])
        /\ IF value_list_of(values, FindInSet_min_length)
           THEN BuildOp("FindInSet", <<needle>> \o values, NoVal,
                        FindInSet_output_type(needle, values))
           ELSE RejectOp("FindInSet", <<needle>> \o values, NoVal, "InputError", {})

FindInSetCall == FindInSetIn(Ids)

\* ops.StringJoin(sep, arg) on views of Views.
StringJoinIn(Views) ==
    \E sep \in Views, arg \in ListsOf({i \in Views : IsString(heap[i])}, MaxList) :
        /\ IsString(heap[sep])
        /\ IF value_list_of(arg, StringJoin_min_length)
           THEN BuildOp("StringJoin", <<sep>> \o arg, NoVal, StringJoin_output_type(sep, arg))
           ELSE RejectOp("StringJoin", <<sep>> \o arg, NoVal, "InputError", {})

StringJoinCall == StringJoinIn(Ids)

\* A ParseURL that takes any name of a URL part, "PORT" too.
ParseURL_extract_open ==
    {"PROTOCOL", "HOST", "PATH", "REF", "AUTHORITY", "FILE", "USERINFO", "QUERY", "PORT"}

\* The set handed to rlz.isin by ParseURL.extract.
ParseURL_extract ==
    {"PROTOCOL", "HOST", "PATH", "REF", "AUTHORITY", "FILE", "USERINFO", "QUERY"}

\* rlz.isin(values): the value is a member of the set.
isin(values, arg) == arg \in values

\* The names of URL parts a caller may come up with.
Extracts == ParseURL_extract \cup {"PORT", "host"}

\* ops.ParseURL(arg, extract, key) on views of Views.
ParseURLIn(Views) ==
    \E arg \in Views, extract \in Extracts, key \in Views \cup {0} :
        /\ IsString(heap[arg])
        /\ IsOptional(key, {j \in Ids : IsString(heap[j])})
        /\ IF isin(ParseURL_extract, extract)
           THEN BuildOp("ParseURL", Present(<<arg, key>>), StrVal(extract),
                        ParseURL_output_type(arg, extract, key))
           ELSE RejectOp("ParseURL", Present(<<arg, key>>), StrVal(extract),
                         "InputError", ParseURL_extract)

\* The views a session on strings starts with: a string column, a string
\* scalar, an integer column, a map column and a map scalar.
StrBaseViews ==
    <<Column("s", dt_string),
      ToExpr(Node("Literal", <<>>, StrVal("foobar"), NoType, NoName), dt_string, "Scalar"),
      Column("n", dt_int64),
      Column("m", dt_map),
      ToExpr(Node("Literal", <<>>, MapVal, NoType, NoName), dt_map, "Scalar")>>

InitStr ==
    /\ heap = StrBaseViews
    /\ NULL = 0
    /\ last = Call("init")
    /\ nullRets = {}
    /\ pc = [t \in Threads |-> "idle"]
    /\ tmp = [t \in Threads |-> 0]
    /\ calls = [t \in Threads |-> 0]
    /\ base = Len(StrBaseViews)
    /\ twin = OneRun

\* String and map nodes built over the base views and over each other.
NextStr ==
    \/ SubstringCall
    \/ StartsWithCall
    \/ LPadCall
    \/ FindInSetCall
    \/ StringJoinCall
    \/ MapConcatCall

SpecStr == InitStr /\ [][NextStr]_vars

\* The node kinds of strings.py and maps.py built by SpecStr.
StringMapKinds == {"Substring", "StartsWith", "LPad", "FindInSet", "StringJoin", "MapConcat"}

\* C11: the shape of every string and map node is Column when any of its
\* expression fields (the elements of a list field included, absent
\* optionals excluded) is a column, whatever the position of that field,
\* and Scalar otherwise.
C11_ShapeFromAnyInput ==
    \A i \in Ids :
        heap[i].node.kind \in StringMapKinds =>
            heap[i].shape =
                IF \E k \in 1..Len(heap[i].node.args) :
                       heap[heap[i].node.args[k]].shape = "Column"
                THEN "Column" ELSE "Scalar"

\* --------------------------------------------------- rules of the fields
\* The view a session on field rules starts with: a string column.
RulesBaseViews == <<Column("s", dt_string)>>

InitRules ==
    /\ heap = RulesBaseViews
    /\ NULL = 0
    /\ last = Call("init")
    /\ nullRets = {}
    /\ pc = [t \in Threads |-> "idle"]
    /\ tmp = [t \in Threads |-> 0]
    /\ calls = [t \in Threads |-> 0]
    /\ base = Len(RulesBaseViews)
    /\ twin = OneRun

\* The nodes with an isin field or a list field, built over the base views.
NextRules ==
    \/ ParseURLIn(1..base)
    \/ FindInSetIn(1..base)
    \/ StringJoinIn(1..base)

SpecRules == InitRules /\ [][NextRules]_vars

\* C15: the rules of the fields are checked when the node is constructed
\* and a refused field builds nothing.  ParseURL is built exactly when
\* `extract` is one of PROTOCOL, HOST, PATH, REF, AUTHORITY, FILE, USERINFO
\* and QUERY, and otherwise fails with an error that names the refused value
\* and the allowed set.  FindInSet and StringJoin fail when their list has
\* fewer than one element and are built from any list of one or more
\* strings.
C15_EagerFieldRules ==
    LET eight == {"PROTOCOL", "HOST", "PATH", "REF", "AUTHORITY", "FILE",
                  "USERINFO", "QUERY"}
        built == /\ last.err = ""
                 /\ Len(heap) = last.before + 1
                 /\ last.out = Len(heap)
                 /\ heap[last.out].node.kind = last.op
                 /\ heap[last.out].node.args = last.args
                 /\ heap[last.out].node.value = last.value
        refused == /\ last.err # ""
                   /\ last.out = 0
                   /\ Len(heap) = last.before
    IN  /\ last.op = "ParseURL" =>
            IF last.value.s \in eight
            THEN built
            ELSE refused /\ last.errval = last.value /\ last.allowed = eight
        /\ last.op \in {"FindInSet", "StringJoin"} =>
            IF Len(last.args) - 1 < 1
            THEN refused
            ELSE built /\ \A k \in 2..Len(last.args) :
                              heap[last.args[k]].dtype.kind = "string"

\* ParseURL is asked for "PORT", which is not a part it knows: the call
\* fails and the heap is as it was.
C15_Witness ==
    /\ last.op = "ParseURL"
    /\ last.value = StrVal("PORT")
    /\ last.err # ""
    /\ Len(heap) = last.before

\* ------------------------------------------- columns over base relations
\* A column `nm` of the base relation `table`.
TableColumn(table, nm, t) ==
    ToExpr(Node("TableColumn", <<>>, StrVal(table), NoType, nm), t, "Column")

RECURSIVE root_tables(_)

\* Node.root_tables(): the distinct base relations a node depends on, over
\* all its expression fields; a node without expression fields has none.
root_tables(n) ==
    IF n.kind = "TableColumn"
    THEN {n.value}
    ELSE UNION {root_tables(heap[n.args[k]].node) : k \in 1..Len(n.args)}

\* to_projection that takes the first base relation it meets.
to_projection_first_root(i) ==
    LET roots == root_tables(heap[i].node)
    IN  IF roots = {}
        THEN [err |-> "IndexError", table |-> NoVal, exprs |-> <<>>]
        ELSE [err |-> "", table |-> CHOOSE r \in roots : TRUE, exprs |-> <<i>>]

\* ScalarExpr.to_projection and ColumnExpr.to_projection: the RelationError
\* on more than one root, else TableExpr(roots[0]).projection([self]);
\* roots[0] of an empty list is Python's IndexError.
to_projection(i) ==
    LET roots == root_tables(heap[i].node)
    IN  IF Cardinality(roots) > 1
        THEN [err |-> "RelationError", table |-> NoVal, exprs |-> <<>>]
        ELSE IF roots = {}
        THEN [err |-> "IndexError", table |-> NoVal, exprs |-> <<>>]
        ELSE [err |-> "", table |-> CHOOSE r \in roots : TRUE, exprs |-> <<i>>]

\* v.to_projection(): the projection is a relation, no view is built.
ToProjectionCall ==
    \E i \in Ids :
        LET r == to_projection(i)
        IN  /\ last' = [Call("to_projection") EXCEPT !.self = i, !.err = r.err,
                                                     !.value = r.table, !.args = r.exprs,
                                                     !.before = Len(heap)]
            /\ UNCHANGED <<heap, NULL, nullRets, pc, tmp, calls, base, twin>>

\* DistinctColumn: the DataType of its argument, a column.
DistinctColumn_output_type(arg) == typeof(arg)

\* distinct() that hands back a view of the receiver's own node.
distinct_same_node(i) == ToExpr(heap[i].node, heap[i].dtype, heap[i].shape)

\* AnyColumn.distinct: ops.DistinctColumn(self).to_expr()
distinct(i) ==
    ToExpr(Node("DistinctColumn", <<i>>, NoVal, NoType, NoName),
           DistinctColumn_output_type(i).dtype, DistinctColumn_output_type(i).shape)

\* c.distinct() on a column view.
DistinctCall ==
    \E i \in Ids :
        /\ heap[i].shape = "Column"
        /\ CanAlloc
        /\ heap' = Append(heap, distinct(i))
        /\ last' = [Call("distinct") EXCEPT !.self = i, !.out = Len(heap) + 1,
                                            !.before = Len(heap)]
        /\ UNCHANGED <<NULL, nullRets, pc, tmp, calls, base, twin>>

\* Count and CountDistinct are reductions to an int64 scalar.
Count_output_type == [dtype |-> dt_int64, shape |-> "Scalar"]

\* count() that never looks at the receiver's node.
count_plain(i, where) ==
    ToExpr(Node("Count", Present(<<i, where>>), NoVal, NoType, NoName),
           Count_output_type.dtype, Count_output_type.shape)

\* The view `result` of AnyColumn.count: CountDistinct over the argument of
\* a DistinctColumn receiver, else Count over the receiver.
count_result(i, where) ==
    LET op == heap[i].node
    IN  IF op.kind = "DistinctColumn"
        THEN ToExpr(Node("CountDistinct", Present(<<op.args[1], where>>), NoVal, NoType, NoName),
                    Count_output_type.dtype, Count_output_type.shape)
        ELSE ToExpr(Node("Count", Present(<<i, where>>), NoVal, NoType, NoName),
                    Count_output_type.dtype, Count_output_type.shape)

\* rlz.boolean on a view.
IsBoolean(v) == v.dtype.kind = "boolean"

\* c.count(where) on a column view: result.name("count") is returned; the
\* unnamed `result` is referenced by nothing once count returns.
CountCall ==
    \E i \in Ids, where \in Ids \cup {0} :
        /\ heap[i].shape = "Column"
        /\ IsOptional(where, {j \in Ids : IsBoolean(heap[j])})
        /\ CanAlloc
        /\ heap' = Append(heap, name(count_result(i, where), "count"))
        /\ last' = [Call("count") EXCEPT !.self = i, !.other = where, !.nm = "count",
                                         !.out = Len(heap) + 1, !.before = Len(heap)]
        /\ UNCHANGED <<NULL, nullRets, pc, tmp, calls, base, twin>>

\* The views a session on columns starts with: two string columns of two
\* relations, a boolean column and an integer literal.
ColBaseViews ==
    <<TableColumn("t", "s", dt_string),
      TableColumn("u", "p", dt_string),
      TableColumn("t", "w", dt_boolean),
      ToExpr(Node("Literal", <<>>, IntVal(300), NoType, NoName), dt_int16, "Scalar")>>

InitCols ==
    /\ heap = ColBaseViews
    /\ NULL = 0
    /\ last = Call("init")
    /\ nullRets = {}
    /\ pc = [t \in Threads |-> "idle"]
    /\ tmp = [t \in Threads |-> 0]
    /\ calls = [t \in Threads |-> 0]
    /\ base = Len(ColBaseViews)
    /\ twin = OneRun

\* Columns combined, made distinct, counted and promoted to projections.
NextCols ==
    \/ NullCall
    \/ StartsWithCall
    \/ DistinctCall
    \/ CountCall
    \/ ToProjectionCall

SpecCols == InitCols /\ [][NextCols]_vars

\* C12: to_projection on a scalar or column view that depends on more than
\* one base relation raises the RelationError and answers no projection;
\* on a view of exactly one base relation it answers the projection of that
\* relation that holds this view and nothing else.
C12_ProjectionNeedsOneRelation ==
    last.op = "to_projection" =>
        LET roots == root_tables(heap[last.self].node)
        IN  /\ Cardinality(roots) > 1 =>
                /\ last.err = "RelationError"
                /\ last.args = <<>>
                /\ last.value = NoVal
            /\ Cardinality(roots) = 1 =>
                /\ last.err = ""
                /\ roots = {last.value}
                /\ last.args = <<last.self>>

\* A scalar over two relations (the count of a column of t compared with a
\* column of u) is refused.
C12_Witness ==
    /\ last.op = "to_projection"
    /\ heap[last.self].shape = "Scalar"
    /\ Cardinality(root_tables(heap[last.self].node)) = 2
    /\ last.err = "RelationError"

C17_ProjectionOrRelationError ==
    last.op = "to_projection" =>
        \/ /\ last.err = ""
           /\ last.value \in root_tables(heap[last.self].node)
           /\ last.args = <<last.self>>
        \/ last.err = "RelationError"

\* C18: c.count(w) on a column view c, w a filter or absent: when c's node is
\* a DistinctColumn over x the result is a view over CountDistinct(x, w),
\* built on x and not on the DistinctColumn node; otherwise it is a view over
\* Count(c, w).  Either way the result is an integer scalar named "count"
\* and c, like every object built before, is unchanged.
C18_CountOfDistinct ==
    /\ [](last.op = "count" =>
            LET c == heap[last.self]
                result == heap[last.out]
                w == IF last.other = 0 THEN <<>> ELSE <<last.other>>
            IN  /\ last.out = Len(heap)
                /\ Len(heap) = last.before + 1
                /\ result.name = "count"
                /\ result.dtype = dt_int64
                /\ result.shape = "Scalar"
                /\ IF c.node.kind = "DistinctColumn"
                   THEN /\ result.node.kind = "CountDistinct"
                        /\ result.node.args = c.node.args \o w
                        /\ result.node.args[1] # last.self
                   ELSE /\ result.node.kind = "Count"
                        /\ result.node.args = <<last.self>> \o w)
    /\ [][HeapKept]_vars

\* s.distinct().count(w) with the filter w present: CountDistinct over s and
\* w, named "count".
C18_Witness ==
    /\ last.op = "count"
    /\ heap[last.self].node.kind = "DistinctColumn"
    /\ last.other # 0
    /\ heap[last.out].node.kind = "CountDistinct"
    /\ heap[last.out].node.args = <<heap[last.self].node.args[1], last.other>>
    /\ heap[last.out].name = "count"

\* ---------------------------------------------------------------- hash()
RECURSIVE AnyValue_hash(_)

\* hash() of a DataType: structural, like its equality.
DataType_hash(t) == <<t.kind, t.geotype>>

\* hash() of a node: its kind and its fields, a view among them by its own
\* __hash__.  The hash is kept as the tuple that is hashed: two hashes are
\* equal exactly when the hashed tuples are.
Node_hash(n) ==
    <<n.kind, n.col, DataType_hash(n.to),
      IF n.value.tag = "view" THEN <<AnyValue_hash(heap[n.value.n])>> ELSE <<n.value>>,
      [k \in 1..Len(n.args) |-> AnyValue_hash(heap[n.args[k]])]>>

\* AnyValue.__hash__: hash((self._name, self._dtype, self._arg))
AnyValue_hash(v) == <<v.name, DataType_hash(v.dtype), Node_hash(v.node)>>

\* C16: hashing agrees with equality: two views a and b with a.equals(b)
\* have the same hash, also when one of them carries an explicit name and
\* the other has none but its node resolves to that name.
C16_HashFollowsEquals ==
    \A i \in Ids, j \in Ids :
        ValueExpr_equals(heap[i], heap[j]) => AnyValue_hash(heap[i]) = AnyValue_hash(heap[j])

\* ------------------------------------------------- the same calls twice
\* The longest sequence of calls that is run twice.
MaxSteps == 2

RECURSIVE Struct(_)

\* The structure of a view: what it holds, the views under it by their own
\* structure instead of their identity.
Struct(i) ==
    LET v == heap[i]
    IN  [cls |-> v.cls, dtype |-> v.dtype, name |-> v.name, shape |-> v.shape,
         kind |-> v.node.kind, col |-> v.node.col, to |-> v.node.to,
         value |-> IF v.node.value.tag = "view"
                   THEN <<Struct(v.node.value.n)>> ELSE <<v.node.value>>,
         args |-> [k \in 1..Len(v.node.args) |-> Struct(v.node.args[k])]]

\* What the last call answered: the structure of the view it returned, or
\* the error with what it names.
Outcome ==
    IF last.err # ""
    THEN [err |-> last.err,
          errval |-> IF last.errval.tag = "view"
                     THEN <<Struct(last.errval.n)>> ELSE <<last.errval>>,
          errtype |-> last.errtype, view |-> <<>>]
    ELSE [err |-> "", errval |-> <<NoVal>>, errtype |-> NoType,
          view |-> <<Struct(last.out)>>]

\* The view of the second run that stands for view i of the first.
Mapped(i) == IF i = 0 THEN 0 ELSE twin.map[i]

\* The call `again` of the second run is the call `first` of the first run:
\* the same builder on the same arguments.
SameCall(again, first) ==
    /\ again.op = first.op
    /\ again.self = Mapped(first.self)
    /\ again.value = IF first.value.tag = "view"
                     THEN ViewVal(Mapped(first.value.n)) ELSE first.value
    /\ again.type = first.type
    /\ again.nm = first.nm

\* The builder calls of a run.
Builders ==
    \/ NullCall
    \/ LiteralIn({NoneVal, IntVal(300)}, {NoType, dt_int64})
    \/ NameIn({"x"})
    \/ CastIn({dt_string})

\* A call of the first run.
T2_Call ==
    /\ twin.phase = 1
    /\ twin.seen = last
    /\ Len(twin.script) < MaxSteps
    /\ Builders

\* The call of the first run is written down with what it answered.
T2_Record ==
    /\ twin.phase = 1
    /\ twin.seen # last
    /\ twin' = [twin EXCEPT !.script = Append(@, [call |-> last, res |-> Outcome]),
                            !.seen = last]
    /\ UNCHANGED <<heap, NULL, last, nullRets, pc, tmp, calls, base>>

\* A new process starts from the same base views, the singleton unset; it
\* may call null() before it runs the calls, and the view of that call is
\* not one of the MaxViews views of the run.
T2_Restart ==
    /\ twin.phase = 1
    /\ twin.seen = last
    /\ twin.script # <<>>
    /\ heap' = BaseViews
    /\ NULL' = 0
    /\ nullRets' = {}
    /\ last' = Call("init")
    /\ \E w \in {"no", "todo"} :
           /\ twin' = [twin EXCEPT !.phase = 2, !.k = 1, !.seen = Call("init"), !.warm = w,
                                   !.map = [i \in 1..Len(heap) |->
                                               IF i <= Len(BaseViews) THEN i ELSE 0]]
           /\ base' = Len(BaseViews) + IF w = "todo" THEN 1 ELSE 0
    /\ UNCHANGED <<pc, tmp, calls>>

\* The new process calls null() first.
T2_Warm ==
    /\ twin.phase = 2
    /\ twin.warm = "todo"
    /\ twin.seen = last
    /\ NullCall

\* The null() the new process called first is taken note of; it is no call
\* of the run.
T2_Warmed ==
    /\ twin.phase = 2
    /\ twin.warm = "todo"
    /\ twin.seen # last
    /\ twin' = [twin EXCEPT !.warm = "done", !.seen = last]
    /\ UNCHANGED <<heap, NULL, last, nullRets, pc, tmp, calls, base>>

\* The second run makes the call the first run made at the same place.
T2_Replay ==
    /\ twin.phase = 2
    /\ twin.warm # "todo"
    /\ twin.seen = last
    /\ twin.k <= Len(twin.script)
    /\ Builders
    /\ SameCall(last', twin.script[twin.k].call)

\* The second run has made call k and not yet gone on.
Replayed ==
    /\ twin.phase = 2
    /\ twin.warm # "todo"
    /\ twin.seen # last

\* The second run goes on to the next call; the view the call returned
\* stands for the one the first run's call returned.
T2_Compare ==
    /\ Replayed
    /\ twin' = [twin EXCEPT !.k = @ + 1, !.seen = last,
                            !.map = IF twin.script[twin.k].call.out = 0 THEN @
                                    ELSE [@ EXCEPT ![twin.script[twin.k].call.out] = last.out]]
    /\ UNCHANGED <<heap, NULL, last, nullRets, pc, tmp, calls, base>>

NextTwice ==
    \/ T2_Call
    \/ T2_Record
    \/ T2_Restart
    \/ T2_Warm
    \/ T2_Warmed
    \/ T2_Replay
    \/ T2_Compare

SpecTwice == Init /\ [][NextTwice]_vars

\* C14: construction is deterministic: the same builder calls (null,
\* literal, name, cast) run a second time on the same inputs, in a process
\* whose null singleton may or may not be initialised already, return at
\* every call a view structurally equal to the one of the first run, or
\* the same error.
C14_SameCallsSameViews == Replayed => Outcome = twin.script[twin.k].res

\* literal(None) built the singleton in the first run; in the second run,
\* after an earlier null(), it returns the singleton that is already there.
C14_Witness ==
    /\ Replayed
    /\ twin.warm = "done"
    /\ last.op = "literal"
    /\ last.value = NoneVal
    /\ last.out = NULL
    /\ Len(heap) = last.before
    /\ twin.script[twin.k].call.out = twin.script[twin.k].call.before + 1

====
